---- MODULE Spec2Model ----
(***************************************************************************)
(* Model of src/core.js: the UnsplashPhoto URL builder.                    *)
(*                                                                         *)
(* A JavaScript value is a record [t, n, s]: t is its type tag, n its      *)
(* number (when t = "number") and s its text (when t = "string").  The     *)
(* fields a builder has not been given yet hold Undefined.  The argument   *)
(* of of() is a record [t, cs, a]: cs is the sequence of code units of a   *)
(* string argument, a the sequence of elements of an array argument.       *)
(* The builder is the record this; a call replaces it as the method        *)
(* assigns its fields.                                                     *)
(***************************************************************************)
EXTENDS Integers, Sequences, FiniteSets, TLC

VARIABLES this,      \* the builder: its fields
          ret,       \* what the last call handed back
          call,      \* the last call: its name and arguments
          fetches    \* how many times fetch() has run

vars == <<this, ret, call, fetches>>

(***************************************************************************)
(* Bounds of the exploration.                                              *)
(***************************************************************************)
MaxFetch == 2
MaxKwLen == 3
MaxTokens == 2

(***************************************************************************)
(* JavaScript values.                                                      *)
(***************************************************************************)
Undefined == [t |-> "undefined", n |-> 0, s |-> ""]
Num(k) == [t |-> "number", n |-> k, s |-> ""]
Str(x) == [t |-> "string", n |-> 0, s |-> x]

\* !!v
Truthy(v) ==
    \/ v.t = "number" /\ v.n # 0
    \/ v.t = "string" /\ v.s # ""

\* "" + v
ToStr(v) ==
    IF v.t = "number" THEN ToString(v.n)
    ELSE IF v.t = "string" THEN v.s
    ELSE "undefined"

\* a || b
OrElse(a, b) == IF Truthy(a) THEN a ELSE b

\* v == str, for a string literal str
LooseEq(v, str) == v.t = "string" /\ v.s = str

\* what a call hands back: the builder itself, a string, or a thrown error
This == [kind |-> "this", s |-> ""]
Returned(x) == [kind |-> "string", s |-> x]
Thrown(e) == [kind |-> "throw", s |-> e]

(***************************************************************************)
(* Code units and the string built-ins of() relies on.                     *)
(***************************************************************************)
LoneSurrogate == "\\uD800"
CodeUnits == {"a", " ", ",", LoneSurrogate}

StrArg(cs) == [t |-> "string", cs |-> cs, a |-> <<>>]
ArrArg(a) == [t |-> "array", cs |-> <<>>, a |-> a]
OtherArg(t) == [t |-> t, cs |-> <<>>, a |-> <<>>]
StrElem(cs) == [t |-> "string", cs |-> cs]
NumElem == [t |-> "number", cs |-> <<>>]

\* String.prototype.split(","): the pieces between the commas
RECURSIVE split(_)
split(cs) ==
    IF cs = <<>> THEN << <<>> >>
    ELSE LET rest == split(Tail(cs))
         IN  IF Head(cs) = ","
             THEN << <<>> >> \o rest
             ELSE << <<Head(cs)>> \o Head(rest) >> \o Tail(rest)

RECURSIVE trimStart(_)
trimStart(cs) ==
    IF cs # <<>> /\ Head(cs) = " " THEN trimStart(Tail(cs)) ELSE cs

RECURSIVE trimEnd(_)
trimEnd(cs) ==
    IF cs # <<>> /\ cs[Len(cs)] = " "
    THEN trimEnd(SubSeq(cs, 1, Len(cs) - 1)) ELSE cs

\* a trim that forgets the trailing spaces
trimStartOnly(cs) == trimStart(cs)

\* String.prototype.trim()
trim(cs) == trimEnd(trimStart(cs))

\* Array.prototype.join(",")
RECURSIVE join(_)
join(toks) ==
    IF toks = <<>> THEN <<>>
    ELSE IF Len(toks) = 1 THEN toks[1]
    ELSE toks[1] \o <<",">> \o join(Tail(toks))

\* encodeURI throws URIError on an unpaired surrogate
Malformed(cs) == \E i \in 1..Len(cs) : cs[i] = LoneSurrogate

\* encodeURI of one code unit: "," is reserved and kept, " " is escaped
encodeUnit(c) == IF c = " " THEN "%20" ELSE c

RECURSIVE encodeURI(_)
encodeURI(cs) ==
    IF cs = <<>> THEN "" ELSE encodeUnit(Head(cs)) \o encodeURI(Tail(cs))

\* the text of a string that was not escaped
RECURSIVE text(_)
text(cs) == IF cs = <<>> THEN "" ELSE Head(cs) \o text(Tail(cs))

(***************************************************************************)
(* The constructor.                                                        *)
(***************************************************************************)
BaseUrl == "https://source.unsplash.com"

UnsplashPhoto ==
    [url |-> BaseUrl,
     dimensions |-> [width |-> Undefined, height |-> Undefined],
     scope |-> "all",
     randomizationInterval |-> "perRequest",
     id |-> Undefined,
     username |-> Undefined,
     category |-> Undefined,
     collection |-> Undefined,
     keywords |-> Undefined]

Called(op, args) == [op |-> op, args |-> args]

Init ==
    /\ this = UnsplashPhoto
    /\ ret = This
    /\ call = Called("new", <<>>)
    /\ fetches = 0

(***************************************************************************)
(* The chainable setters.                                                  *)
(***************************************************************************)
find(v) ==
    /\ this' = [this EXCEPT !.id = v]
    /\ ret' = This
    /\ call' = Called("find", <<v>>)
    /\ UNCHANGED fetches

width(v) ==
    /\ this' = [this EXCEPT !.dimensions.width = v]
    /\ ret' = This
    /\ call' = Called("width", <<v>>)
    /\ UNCHANGED fetches

height(v) ==
    /\ this' = [this EXCEPT !.dimensions.height = v]
    /\ ret' = This
    /\ call' = Called("height", <<v>>)
    /\ UNCHANGED fetches

\* a size that does not default the height
sizedNoDefault(w, h) == [width |-> w, height |-> h]

sized(w, h) == [width |-> w, height |-> OrElse(h, w)]

size(w, h) ==
    /\ this' = [this EXCEPT !.dimensions = sized(w, h)]
    /\ ret' = This
    /\ call' = Called("size", <<w, h>>)
    /\ UNCHANGED fetches

\* a randomize that ignores what it does not recognize
randomizedKeep(old, interval) ==
    IF LooseEq(interval, "daily") \/ LooseEq(interval, "weekly")
    THEN interval.s
    ELSE old

randomized(old, interval) ==
    IF LooseEq(interval, "daily") \/ LooseEq(interval, "weekly")
    THEN interval.s
    ELSE "perRequest"

randomize(interval) ==
    /\ this' = [this EXCEPT !.randomizationInterval = randomized(@, interval)]
    /\ ret' = This
    /\ call' = Called("randomize", <<interval>>)
    /\ UNCHANGED fetches

featured ==
    /\ this' = [this EXCEPT !.scope = "featured"]
    /\ ret' = This
    /\ call' = Called("featured", <<>>)
    /\ UNCHANGED fetches

fromUser(v) ==
    /\ this' = [this EXCEPT !.username = v]
    /\ ret' = This
    /\ call' = Called("fromUser", <<v>>)
    /\ UNCHANGED fetches

fromCategory(v) ==
    /\ this' = [this EXCEPT !.category = v]
    /\ ret' = This
    /\ call' = Called("fromCategory", <<v>>)
    /\ UNCHANGED fetches

fromCollection(v) ==
    /\ this' = [this EXCEPT !.collection = v]
    /\ ret' = This
    /\ call' = Called("fromCollection", <<v>>)
    /\ UNCHANGED fetches

(***************************************************************************)
(* of(keywords).                                                           *)
(***************************************************************************)
\* keywords.split(",") exists only on a string
splitThrows(k) == k.t \notin {"string", "array"}

\* the array the forEach runs over
tokensOf(k) ==
    IF k.t = "array" THEN k.a
    ELSE [i \in 1..Len(split(k.cs)) |-> StrElem(split(k.cs)[i])]

\* an of() that skips the elements it cannot trim
trimNeverThrows(k) == FALSE

\* keyword.trim() exists only on a string
trimThrows(k) == \E i \in 1..Len(tokensOf(k)) : tokensOf(k)[i].t # "string"

sanitizedKeywords(k) ==
    [i \in 1..Len(tokensOf(k)) |-> trim(tokensOf(k)[i].cs)]

joined(k) == join(sanitizedKeywords(k))

of(k) ==
    /\ IF splitThrows(k) \/ trimThrows(k)
       THEN /\ ret' = Thrown("TypeError")
            /\ UNCHANGED this
       ELSE IF Malformed(joined(k))
       THEN /\ ret' = Thrown("URIError")
            /\ this' = [this EXCEPT !.keywords = Str(text(joined(k)))]
       ELSE /\ ret' = This
            /\ this' = [this EXCEPT !.keywords = Str(encodeURI(joined(k)))]
    /\ call' = Called("of", <<k>>)
    /\ UNCHANGED fetches

(***************************************************************************)
(* fetch() and its helpers; each helper maps the builder to the builder    *)
(* after it has run.                                                       *)
(***************************************************************************)
append(b, x) == [b EXCEPT !.url = @ \o x]

\* a dimension test that looks at the width only
_hasWidth(b) == Truthy(b.dimensions.width)

_hasDimensions(b) == Truthy(b.dimensions.width) /\ Truthy(b.dimensions.height)

_appendDimensions(b) ==
    IF _hasDimensions(b)
    THEN append(b, "/" \o ToStr(b.dimensions.width)
                       \o "x" \o ToStr(b.dimensions.height))
    ELSE b

_appendScope(b) == IF b.scope = "featured" THEN append(b, "/featured") ELSE b

_appendKeywords(b) ==
    IF Truthy(b.keywords) THEN append(b, "?" \o ToStr(b.keywords)) ELSE b

\* an interval segment that ignores includeRandomPath
_appendRandomizationAlways(b, includeRandomPath) ==
    IF b.randomizationInterval = "perRequest" THEN append(b, "/random")
    ELSE IF b.randomizationInterval = "daily" THEN append(b, "/daily")
    ELSE IF b.randomizationInterval = "weekly" THEN append(b, "/weekly")
    ELSE b

_appendRandomization(b, includeRandomPath) ==
    IF includeRandomPath /\ b.randomizationInterval = "perRequest"
    THEN append(b, "/random")
    ELSE IF b.randomizationInterval = "daily" THEN append(b, "/daily")
    ELSE IF b.randomizationInterval = "weekly" THEN append(b, "/weekly")
    ELSE b

(***************************************************************************)
(* Variants of fetch() with one slip each, for checking that the           *)
(* properties below tell them from fetch().                                *)
(***************************************************************************)
serialized(b, seg, includeRandomPath) ==
    _appendKeywords(_appendRandomization(_appendDimensions(
        _appendScope(append(b, seg))), includeRandomPath))

bySelector(b) ==
    IF Truthy(b.username) THEN serialized(b, "/user/" \o ToStr(b.username), FALSE)
    ELSE IF Truthy(b.category)
    THEN serialized(b, "/category/" \o ToStr(b.category), FALSE)
    ELSE IF Truthy(b.collection)
    THEN serialized(b, "/collection/" \o ToStr(b.collection), FALSE)
    ELSE serialized(b, "", TRUE)

\* username tested before id
fetchedUserFirst(b) ==
    IF Truthy(b.username) THEN bySelector(b)
    ELSE IF Truthy(b.id) THEN _appendDimensions(append(b, "/" \o ToStr(b.id)))
    ELSE bySelector(b)

\* the id branch runs the appends of the other branches
fetchedIdFallsThrough(b) ==
    IF Truthy(b.id) THEN serialized(b, "/" \o ToStr(b.id), FALSE)
    ELSE bySelector(b)

\* dimensions appended before the scope
fetchedDimensionsFirst(b) ==
    IF Truthy(b.id) THEN _appendDimensions(append(b, "/" \o ToStr(b.id)))
    ELSE LET seg == IF Truthy(b.username) THEN "/user/" \o ToStr(b.username)
                    ELSE IF Truthy(b.category)
                    THEN "/category/" \o ToStr(b.category)
                    ELSE IF Truthy(b.collection)
                    THEN "/collection/" \o ToStr(b.collection)
                    ELSE ""
             any == Truthy(b.username) \/ Truthy(b.category)
                        \/ Truthy(b.collection)
         IN  _appendKeywords(_appendRandomization(_appendScope(
                 _appendDimensions(append(b, seg))), ~any))

\* the builder after fetch() has run on b
fetched(b) ==
    IF Truthy(b.id)
    THEN _appendDimensions(append(b, "/" \o ToStr(b.id)))
    ELSE IF Truthy(b.username)
    THEN _appendKeywords(_appendRandomization(_appendDimensions(
             _appendScope(append(b, "/user/" \o ToStr(b.username)))), FALSE))
    ELSE IF Truthy(b.category)
    THEN _appendKeywords(_appendRandomization(_appendDimensions(
             _appendScope(append(b, "/category/" \o ToStr(b.category)))), FALSE))
    ELSE IF Truthy(b.collection)
    THEN _appendKeywords(_appendRandomization(_appendDimensions(
             _appendScope(append(b, "/collection/" \o ToStr(b.collection)))), FALSE))
    ELSE _appendKeywords(_appendRandomization(_appendDimensions(
             _appendScope(b)), TRUE))

\* a fetch() that builds the url without storing it
fetchNoStore ==
    /\ fetches < MaxFetch
    /\ this' = this
    /\ ret' = Returned(fetched(this).url)
    /\ call' = Called("fetch", <<>>)
    /\ fetches' = fetches + 1

fetch ==
    /\ fetches < MaxFetch
    /\ this' = fetched(this)
    /\ ret' = Returned(this'.url)
    /\ call' = Called("fetch", <<>>)
    /\ fetches' = fetches + 1

(***************************************************************************)
(* The arguments the calls are tried with.                                 *)
(***************************************************************************)
IdArgs == {Undefined, Num(0), Num(7)}
WidthArgs == {Num(0), Num(2)}
HeightArgs == {Num(0), Num(3)}
IntervalArgs == {Undefined, Str("daily"), Str("weekly"), Str("monthly")}
UserArgs == {Undefined, Str(""), Str("bob")}
CategoryArgs == {Str("nature")}
CollectionArgs == {Str("42")}

KeywordArgs ==
    { OtherArg("undefined"), OtherArg("number"),
      StrArg(<<>>), StrArg(<<" ", "a", " ", ",", "a">>),
      StrArg(<<LoneSurrogate>>),
      ArrArg(<<>>), ArrArg(<<StrElem(<<" ", "a", " ">>), StrElem(<<"a">>)>>),
      ArrArg(<<StrElem(<<"a">>), NumElem>>) }

\* every string of at most n code units
Strings(n) == UNION {[1..m -> CodeUnits] : m \in 0..n}

ElemArgs ==
    { StrElem(<<>>), StrElem(<<"a">>), StrElem(<<" ", "a", " ">>),
      StrElem(<<"a", " ", "a">>), StrElem(<<LoneSurrogate>>), NumElem }

\* every array of at most n elements
Arrays(n) == UNION {[1..m -> ElemArgs] : m \in 0..n}

(***************************************************************************)
(* Spec: a builder is configured by any calls in any order, then fetched.  *)
(***************************************************************************)
Next ==
    \/ fetches = 0 /\ \E v \in IdArgs : find(v)
    \/ fetches = 0 /\ \E v \in WidthArgs : width(v)
    \/ fetches = 0 /\ \E v \in HeightArgs : height(v)
    \/ fetches = 0 /\ \E w \in WidthArgs, h \in HeightArgs \cup {Undefined} : size(w, h)
    \/ fetches = 0 /\ \E v \in IntervalArgs : randomize(v)
    \/ fetches = 0 /\ featured
    \/ fetches = 0 /\ \E k \in KeywordArgs : of(k)
    \/ fetches = 0 /\ \E v \in UserArgs : fromUser(v)
    \/ fetches = 0 /\ \E v \in CategoryArgs : fromCategory(v)
    \/ fetches = 0 /\ \E v \in CollectionArgs : fromCollection(v)
    \/ fetch

Spec == Init /\ [][Next]_vars

(***************************************************************************)
(* SpecKw: of() on every string and array within the bounds, on a builder   *)
(* that holds no keywords yet, in each branch of fetch().                  *)
(***************************************************************************)
KwUnset == fetches = 0 /\ this.keywords = Undefined /\ call.op # "of"

NextKw ==
    \/ KwUnset /\ \E cs \in Strings(MaxKwLen) : of(StrArg(cs))
    \/ KwUnset /\ \E a \in Arrays(MaxTokens) : of(ArrArg(a))
    \/ fetches = 0 /\ find(Num(7))
    \/ fetches = 0 /\ fromUser(Str("bob"))
    \/ fetches = 0 /\ fromCategory(Str("nature"))
    \/ fetches = 0 /\ fromCollection(Str("42"))
    \/ fetch

SpecKw == Init /\ [][NextKw]_vars

(***************************************************************************)
(* SpecReuse: a builder that is fetched again, reconfigured or not in      *)
(* between.                                                                *)
(***************************************************************************)
NextReuse ==
    \/ \E v \in {Undefined, Num(7)} : find(v)
    \/ \E v \in {Undefined, Str("bob")} : fromUser(v)
    \/ \E v \in {Undefined, Str("daily")} : randomize(v)
    \/ featured
    \/ fetch

SpecReuse == Init /\ [][NextReuse]_vars

(***************************************************************************)
(* The output format the properties are stated against:                    *)
(*   base [/selector] [/featured] [/WxH] [/daily|/weekly|/random] [?kw]    *)
(***************************************************************************)
\* the first fetch() has just returned; the fields other than url are those
\* it ran on, and it ran on the constructor's url
FirstFetch == fetches = 1 /\ call.op = "fetch" /\ ret.kind = "string"

Fresh(b) == [b EXCEPT !.url = BaseUrl]

NoSelector(b) ==
    /\ ~Truthy(b.id)
    /\ ~Truthy(b.username)
    /\ ~Truthy(b.category)
    /\ ~Truthy(b.collection)

Positive(v) == v.t = "number" /\ v.n > 0

SelSeg(b) ==
    CASE Truthy(b.id) -> "/" \o ToStr(b.id)
      [] ~Truthy(b.id) /\ Truthy(b.username) -> "/user/" \o b.username.s
      [] ~Truthy(b.id) /\ ~Truthy(b.username) /\ Truthy(b.category) ->
             "/category/" \o b.category.s
      [] ~Truthy(b.id) /\ ~Truthy(b.username) /\ ~Truthy(b.category)
             /\ Truthy(b.collection) -> "/collection/" \o b.collection.s
      [] OTHER -> ""

ScopeSeg(b) == IF b.scope = "featured" THEN "/featured" ELSE ""

DimSeg(b) ==
    IF Truthy(b.dimensions.width) /\ Truthy(b.dimensions.height)
    THEN "/" \o ToString(b.dimensions.width.n) \o "x"
             \o ToString(b.dimensions.height.n)
    ELSE ""

RandSeg(b) ==
    CASE b.randomizationInterval = "daily" -> "/daily"
      [] b.randomizationInterval = "weekly" -> "/weekly"
      [] OTHER -> IF NoSelector(b) THEN "/random" ELSE ""

KwSeg(b) ==
    IF b.keywords.t = "string" /\ b.keywords.s # ""
    THEN "?" \o b.keywords.s ELSE ""

\* everything after the selector segment
Rest(b) ==
    IF Truthy(b.id)
    THEN DimSeg(b)
    ELSE ScopeSeg(b) \o DimSeg(b) \o RandSeg(b) \o KwSeg(b)

\* everything after the base
Suffix(b) == SelSeg(b) \o Rest(b)

(***************************************************************************)
(* C1: when several selectors are truthy, fetch() serializes exactly as it *)
(* does for the builder that holds only the first of them in the order id, *)
(* username, category, collection: the lower-priority selectors add        *)
(* nothing, whatever order they were set in.                               *)
(***************************************************************************)
SelectorsSet(b) ==
    Cardinality({f \in {"id", "username", "category", "collection"} :
                    Truthy(b[f])})

OnlyWinner(b) ==
    IF Truthy(b.id)
    THEN [b EXCEPT !.username = Undefined, !.category = Undefined,
                   !.collection = Undefined]
    ELSE IF Truthy(b.username)
    THEN [b EXCEPT !.category = Undefined, !.collection = Undefined]
    ELSE IF Truthy(b.category)
    THEN [b EXCEPT !.collection = Undefined]
    ELSE b

C1_SelectorPrecedence ==
    (FirstFetch /\ SelectorsSet(this) >= 2) =>
        /\ ret.s = fetched(Fresh(OnlyWinner(this))).url
        /\ ret.s = BaseUrl \o SelSeg(OnlyWinner(this)) \o Rest(this)

C1_Witness ==
    /\ FirstFetch
    /\ this.id = Num(0)
    /\ this.username = Str("bob")
    /\ this.category = Str("nature")
    /\ this.collection = Str("42")
    /\ call.op = "fetch"
    /\ ret.s = BaseUrl \o "/user/bob"

(***************************************************************************)
(* C2: with a positive integer id, the first fetch() returns exactly       *)
(* base/<id> followed by the dimension segment when there is one, whatever *)
(* scope, interval, keywords and other selectors were set.                 *)
(***************************************************************************)
C2_DirectIdLookup ==
    (FirstFetch /\ Positive(this.id)) =>
        ret.s = BaseUrl \o "/" \o ToString(this.id.n) \o DimSeg(this)

C2_Witness ==
    /\ FirstFetch
    /\ this.id = Num(7)
    /\ this.scope = "featured"
    /\ this.randomizationInterval = "weekly"
    /\ Truthy(this.keywords)
    /\ Truthy(this.username)
    /\ ret.s = BaseUrl \o "/7"

(***************************************************************************)
(* C3: on the first fetch() with interval perRequest, "/random" is         *)
(* appended if and only if no selector is set, and the username, category  *)
(* and collection branches append no interval segment; daily and weekly    *)
(* append "/daily" and "/weekly" in every branch but direct id lookup.     *)
(***************************************************************************)
C3_RandomizationPath ==
    FirstFetch =>
        LET pre == BaseUrl \o SelSeg(this) \o ScopeSeg(this) \o DimSeg(this)
            ri == this.randomizationInterval
        IN  /\ (ri = "perRequest" /\ NoSelector(this)) =>
                   ret.s = pre \o "/random" \o KwSeg(this)
            /\ (ri = "perRequest" /\ ~NoSelector(this) /\ ~Truthy(this.id)) =>
                   ret.s = pre \o KwSeg(this)
            /\ (ri = "perRequest" /\ Truthy(this.id)) =>
                   ret.s = BaseUrl \o SelSeg(this) \o DimSeg(this)
            /\ (ri \in {"daily", "weekly"} /\ ~Truthy(this.id)) =>
                   ret.s = pre \o "/" \o ri \o KwSeg(this)

C3_Witness ==
    /\ FirstFetch
    /\ this.randomizationInterval = "perRequest"
    /\ this.username = Str("bob")
    /\ ~Truthy(this.id)
    /\ this.scope = "featured"
    /\ ret.s = BaseUrl \o "/user/bob/featured"

(***************************************************************************)
(* C4: the first fetch() returns the base followed by the segments that    *)
(* are present, each once, in the order selector, "/featured", "/WxH",     *)
(* interval, "?keywords", whatever order the setters were called in.       *)
(***************************************************************************)
C4_SegmentOrder == FirstFetch => ret.s = BaseUrl \o Suffix(this)

C4_Witness ==
    /\ FirstFetch
    /\ ret.s = BaseUrl \o "/category/nature/featured/2x3/daily?a,a"

(***************************************************************************)
(* C5: randomize stores "daily" or "weekly" when given exactly that        *)
(* string and otherwise resets the interval to "perRequest"; it never      *)
(* raises, and after an unrecognized value fetch() gives what it gives     *)
(* with the constructor's interval.                                        *)
(***************************************************************************)
C5_Randomize ==
    call.op = "randomize" =>
        LET v == call.args[1]
        IN  /\ ret = This
            /\ v \in {Str("daily"), Str("weekly")} =>
                   this.randomizationInterval = v.s
            /\ v \notin {Str("daily"), Str("weekly")} =>
                   /\ this.randomizationInterval = "perRequest"
                   /\ this.randomizationInterval =
                          UnsplashPhoto.randomizationInterval
                   /\ fetched(this).url = this.url \o Suffix(this)

C5_Witness ==
    /\ call = Called("randomize", <<Str("monthly")>>)
    /\ this.randomizationInterval = "perRequest"
    /\ ret = This

(***************************************************************************)
(* C6: size(w, h) with positive integers sets width w and height h,        *)
(* size(w) sets height w, both replacing earlier dimensions; the first     *)
(* fetch() of a builder with no selector then holds the segment "/WxH".    *)
(***************************************************************************)
C6_SizeLaw ==
    /\ (call.op = "size" /\ Positive(call.args[1])) =>
           /\ Positive(call.args[2]) =>
                  this.dimensions =
                      [width |-> call.args[1], height |-> call.args[2]]
           /\ call.args[2] = Undefined =>
                  this.dimensions =
                      [width |-> call.args[1], height |-> call.args[1]]
    /\ (FirstFetch /\ NoSelector(this) /\ Positive(this.dimensions.width)
            /\ Positive(this.dimensions.height)) =>
           ret.s = BaseUrl \o ScopeSeg(this)
                     \o "/" \o ToString(this.dimensions.width.n)
                     \o "x" \o ToString(this.dimensions.height.n)
                     \o RandSeg(this) \o KwSeg(this)

C6_Witness ==
    /\ FirstFetch
    /\ this.dimensions = [width |-> Num(2), height |-> Num(2)]
    /\ ret.s = BaseUrl \o "/2x2/random"

(***************************************************************************)
(* What of() is to store, stated on the argument: the pieces of a string   *)
(* between its commas or the elements of a list, each without the spaces   *)
(* around it, joined by commas, with spaces escaped.                       *)
(***************************************************************************)
Commas(cs) == {i \in 1..Len(cs) : cs[i] = ","}

\* where the n-th comma of cs is; 0 before the first, Len(cs) + 1 after the last
CommaAt(cs, n) ==
    IF n = 0 THEN 0
    ELSE IF n > Cardinality(Commas(cs)) THEN Len(cs) + 1
    ELSE CHOOSE i \in Commas(cs) :
             Cardinality({j \in Commas(cs) : j < i}) = n - 1

Pieces(cs) ==
    [n \in 1..(Cardinality(Commas(cs)) + 1) |->
        SubSeq(cs, CommaAt(cs, n - 1) + 1, CommaAt(cs, n) - 1)]

Tokens(k) ==
    IF k.t = "string" THEN Pieces(k.cs)
    ELSE [i \in 1..Len(k.a) |-> k.a[i].cs]

\* tok without the spaces before its first and after its last other unit
Stripped(tok) ==
    LET solid == {i \in 1..Len(tok) : tok[i] # " "}
    IN  IF solid = {} THEN <<>>
        ELSE SubSeq(tok,
                    CHOOSE i \in solid : \A j \in solid : i <= j,
                    CHOOSE i \in solid : \A j \in solid : i >= j)

RECURSIVE Glued(_, _)
Glued(toks, escape) ==
    IF toks = <<>> THEN ""
    ELSE LET tok == Stripped(Head(toks))
             unit(i) == IF escape /\ tok[i] = " " THEN "%20" ELSE tok[i]
             RECURSIVE units(_)
             units(i) == IF i > Len(tok) THEN "" ELSE unit(i) \o units(i + 1)
         IN  units(1) \o (IF Len(toks) > 1
                          THEN "," \o Glued(Tail(toks), escape) ELSE "")

AllStrings(k) == k.t = "string" \/ (k.t = "array" /\ \A i \in 1..Len(k.a) : k.a[i].t = "string")

HasLoneSurrogate(k) ==
    \/ k.t = "string" /\ \E i \in 1..Len(k.cs) : k.cs[i] = LoneSurrogate
    \/ k.t = "array" /\ \E i \in 1..Len(k.a) :
           \E j \in 1..Len(k.a[i].cs) : k.a[i].cs[j] = LoneSurrogate

(***************************************************************************)
(* C7: of(k) on a string or a list of strings stores the tokens, trimmed,  *)
(* comma-joined and URI-escaped, so a string and the list of its pieces    *)
(* store the same; on the first fetch(), except in direct id lookup,       *)
(* "?" + keywords is appended last if and only if the stored string is not *)
(* empty.                                                                  *)
(***************************************************************************)
NoKeywords(b) == [b EXCEPT !.keywords = Undefined]

C8_OnlyNonStringNonList ==
    [][ret'.kind = "throw" =>
           /\ call'.op = "of"
           /\ call'.args[1].t \notin {"string", "array"}
           /\ this' = this]_vars

(***************************************************************************)
(* C8 amended: a call raises exactly when it is of() given a value that is *)
(* neither a string nor a list, or a list with an element that is not a    *)
(* string, or text with an unpaired surrogate.  In the first two cases no  *)
(* field changes; in the third keywords already holds the unescaped joined *)
(* tokens and no other field changes.  No other call raises on undefined,  *)
(* numbers or strings.                                                     *)
(***************************************************************************)
C8_Raises ==
    [][/\ ret'.kind = "throw" <=>
              /\ call'.op = "of"
              /\ \/ ~AllStrings(call'.args[1])
                 \/ HasLoneSurrogate(call'.args[1])
       /\ (call'.op = "of" /\ ~AllStrings(call'.args[1])) =>
              /\ ret' = Thrown("TypeError")
              /\ this' = this
       /\ (call'.op = "of" /\ AllStrings(call'.args[1])
              /\ HasLoneSurrogate(call'.args[1])) =>
              /\ ret' = Thrown("URIError")
              /\ this' = [this EXCEPT !.keywords =
                             Str(Glued(Tokens(call'.args[1]), FALSE))]]_vars

C8_Witness ==
    /\ call = Called("of", <<ArrArg(<<StrElem(<<"a">>), NumElem>>)>>)
    /\ ret = Thrown("TypeError")
    /\ this.keywords = Str("a,a")
    /\ this.id = Num(7)

(***************************************************************************)
(* C9: fetch() appends "/<width>x<height>" if and only if width and height *)
(* are both truthy, in every branch; with one of them unset or zero it     *)
(* appends no dimension segment and raises nothing.                        *)
(***************************************************************************)
NoDimensions(b) == [b EXCEPT !.dimensions = UnsplashPhoto.dimensions]

C9_DimensionPolicy ==
    (fetches = 1 /\ call.op = "fetch") =>
        LET w == this.dimensions.width
            h == this.dimensions.height
            both == /\ w.t = "number" /\ w.n # 0
                    /\ h.t = "number" /\ h.n # 0
            seg == IF both
                   THEN "/" \o ToString(w.n) \o "x" \o ToString(h.n) ELSE ""
        IN  /\ ret.kind = "string"
            /\ ret.s = BaseUrl \o (IF Truthy(this.id) THEN SelSeg(this)
                                   ELSE SelSeg(this) \o ScopeSeg(this))
                         \o seg
                         \o (IF Truthy(this.id) THEN ""
                             ELSE RandSeg(this) \o KwSeg(this))
            /\ ~both => ret.s = fetched(Fresh(NoDimensions(this))).url

C9_Witness ==
    /\ fetches = 1
    /\ call.op = "fetch"
    /\ this.dimensions = [width |-> Num(2), height |-> Undefined]
    /\ this.id = Num(7)
    /\ ret.s = BaseUrl \o "/7"

(***************************************************************************)
(* C10: every fetch() returns the stored url extended by the segments of   *)
(* the current configuration and stores it; the extension is never empty,  *)
(* so the result differs from the previous one, and a second fetch() right *)
(* after the first returns base + s + s.  No setter changes the url.       *)
(***************************************************************************)
C10_FetchAppends ==
    [][/\ fetches' = fetches + 1 =>
              /\ ret' = Returned(this.url \o Suffix(this))
              /\ this'.url = ret'.s
              /\ Suffix(this) # ""
              /\ ret'.s # this.url
              /\ (call.op = "fetch") =>
                     /\ ret'.s # ret.s
                     /\ ret'.s = ret.s \o Suffix(this)
                     /\ fetches = 1 =>
                            ret'.s = BaseUrl \o Suffix(this) \o Suffix(this)
       /\ fetches' = fetches => this'.url = this.url]_vars

C10_Witness ==
    /\ fetches = 2
    /\ call.op = "fetch"
    /\ this.username = Str("bob")
    /\ ret.s = BaseUrl \o "/user/bob/featured/daily" \o "/user/bob/featured/daily"

====
